---- MODULE Spec2Model ----
(***************************************************************************)
(* TXB texture loading (src/src/graphics/images/txb.cpp).                  *)
(*                                                                         *)
(* The decoder object (class TXB) is modelled with its fields, the locals  *)
(* of readHeader while its loop runs, and the input stream as a size and a *)
(* read position.  Pixel and TXI bytes carry no information the code looks *)
(* at, so buffers are modelled by "allocated or not".                      *)
(*                                                                         *)
(* uint32 values are records [hi, lo] of two 16-bit halves, so that the    *)
(* code's arithmetic modulo 2^32 is computed exactly.                      *)
(***************************************************************************)
EXTENDS Integers, Sequences, FiniteSets, TLC

\* ------------------------------------------------------------------------
\* Program constants
\* ------------------------------------------------------------------------
kEncodingBGRA == 4
kEncodingDXT1 == 10
kEncodingDXT5 == 12
kEncodingUnsupported == 9
kHeaderSize == 128

\* ------------------------------------------------------------------------
\* Bounds of the model
\* ------------------------------------------------------------------------
\* Number of load() calls made on one decoder.
MaxLoads == 2

\* ------------------------------------------------------------------------
\* uint32 arithmetic
\* ------------------------------------------------------------------------
Half == 2^16

Min(a, b) == IF a < b THEN a ELSE b

\* A natural number below 2^31 as uint32.
U32(n) == [hi |-> (n \div Half) % Half, lo |-> n % Half]

\* A uint32 below 2^31 as a natural number.
ToNat(u) == u.hi * Half + u.lo

Zero32 == U32(0)

\* a * b for two values that fit 16 bits; the product fits 32 bits.
Mul16(a, b) ==
  LET p0 == a * (b % 256)
      p1 == a * (b \div 256)
      low == (p1 % 256) * 256 + p0
  IN  [hi |-> (p1 \div 256) + (low \div Half), lo |-> low % Half]

\* v << k, modulo 2^32.
Shl32(v, k) ==
  LET l == v.lo * (2^k)
  IN  [hi |-> (v.hi * (2^k) + (l \div Half)) % Half, lo |-> l % Half]

\* v >> k.
Shr32(v, k) ==
  [hi |-> v.hi \div (2^k),
   lo |-> (v.lo \div (2^k)) + (v.hi % (2^k)) * (Half \div (2^k))]

Lt32(a, b) == \/ a.hi < b.hi
              \/ a.hi = b.hi /\ a.lo < b.lo

Max32(a, b) == IF Lt32(a, b) THEN b ELSE a

\* a - b, modulo 2^32.
Sub32(a, b) ==
  LET borrow == IF a.lo < b.lo THEN 1 ELSE 0
  IN  [hi |-> (a.hi + 2 * Half - b.hi - borrow) % Half,
       lo |-> (a.lo + Half - b.lo) % Half]

\* a + b, modulo 2^32.
Add32(a, b) ==
  LET l == a.lo + b.lo
  IN  [hi |-> (a.hi + b.hi + (l \div Half)) % Half, lo |-> l % Half]

\* ------------------------------------------------------------------------
\* Inputs
\* ------------------------------------------------------------------------
\* Values of the two-byte width and height fields.
Dims == {0, 1, 2, 3, 4, 8, 256, 32768, 65535}

\* Values of the encoding byte: the three known ones, 0x09, and an unknown one.
Encodings == {kEncodingBGRA, kEncodingDXT1, kEncodingDXT5, kEncodingUnsupported, 255}

\* Values of the mip map count byte.
MipCounts == {0, 1, 3, 9, 255}

\* Values of the four-byte data size field.
Budgets == {U32(0), U32(4), U32(8), U32(43704), U32(65536), [hi |-> 65535, lo |-> 65535]}

\* Total sizes of the stream handed to the constructor.
Sizes == {128, 132, 136, 260, 43832, 65664}

Header(ds, w, h, e, n) ==
  [dataSize |-> ds, width |-> w, height |-> h, encoding |-> e, mipMapCount |-> n]

\* Headers a freshly constructed decoder may find at the start of its stream.
HeadersFirst ==
  { Header(ds, w, h, e, n) : ds \in Budgets, w \in Dims, h \in Dims,
                             e \in Encodings, n \in MipCounts }

\* Headers a repeated load() may find at the position the failed one stopped.
HeadersAgain ==
  { Header(U32(4), 1, 1, kEncodingBGRA, 1),
    Header(U32(8), 2, 1, kEncodingDXT1, 2),
    Header(U32(0), 0, 0, 0, 0),
    Header(U32(0), 0, 0, kEncodingBGRA, 0),
    Header(U32(16), 4, 4, kEncodingDXT5, 1) }

Headers(n) == IF n = 1 THEN HeadersFirst ELSE HeadersAgain

NoHeader == Header(Zero32, 0, 0, 0, 0)

\* ------------------------------------------------------------------------
\* State
\* ------------------------------------------------------------------------
VARIABLES
  pc,            \* where the decoder is: "idle" outside load(), else the step of load()
  loads,         \* number of load() calls made so far
  result,        \* how the last load() ended: "none", "noop", "ok", "failed"
  failedIn,      \* the throw site of the last failed load()
  everFailed,    \* some load() call has failed
  _txb,          \* TRUE while the decoder holds the stream pointer
  streamDeleted, \* the stream object has been deleted
  size,          \* total size of the stream
  pos,           \* read position of the stream
  _dataSize,
  _txiData,      \* TRUE when a TXI buffer is allocated
  _txiDataSize,
  _mipMaps,      \* sequence of [width, height, size, data]
  hdr,           \* the header fields read by the running load()
  dataSize, width, height, minDataSize, mipMapSize, i,  \* locals of readHeader
  it,            \* iterator of readData, as an index into _mipMaps
  base,          \* length of _mipMaps when readHeader was entered
  orphans,       \* MipMap objects allocated, not in _mipMaps and not deleted
  txiFresh       \* the running (or last) load() has allocated a TXI buffer

vars == <<pc, loads, result, failedIn, everFailed, _txb, streamDeleted, size, pos,
          _dataSize, _txiData, _txiDataSize, _mipMaps, hdr,
          dataSize, width, height, minDataSize, mipMapSize, i, it, base, orphans,
          txiFresh>>

locals == <<dataSize, width, height, minDataSize, mipMapSize, i>>
stream == <<size, pos>>
fields == <<_dataSize, _txiData, _txiDataSize, _mipMaps>>
outcome == <<result, failedIn, everFailed>>
heap == <<orphans, txiFresh>>

\* ------------------------------------------------------------------------
\* The stream
\* ------------------------------------------------------------------------
Avail(p) == IF size > p THEN size - p ELSE 0

\* Position after a read of n bytes at p: a read stops at the end of the stream.
Rd(p, n) == p + Min(n, Avail(p))

\* Position after a skip of n bytes at p.
Sk(p, n) == p + n

\* Position after the reads and skips of readHeader.
HeaderEnd(p) ==
  Sk(Sk(Sk(Rd(Rd(Rd(Rd(Sk(Rd(p, 4), 4), 2), 2), 1), 1), 2), 4), 108)

\* Number of bytes a read of n (a uint32) at p yields.
Got(p, n) == IF Lt32(U32(Avail(p)), n) THEN Avail(p) ELSE ToNat(n)

\* ------------------------------------------------------------------------
\* readHeader: per-encoding derivation
\* ------------------------------------------------------------------------
KnownEncoding(e) == e \in {kEncodingBGRA, kEncodingDXT1, kEncodingDXT5}

MinDataSize(e) ==
  IF e = kEncodingBGRA THEN U32(4)
  ELSE IF e = kEncodingDXT1 THEN U32(8)
  ELSE U32(16)

\* MipMapSize with the DXT1 size taken as a quarter of the pixel count.
MipMapSize_QuarterDXT1(e, w, h) ==
  IF e = kEncodingBGRA THEN Shl32(Mul16(w, h), 2)
  ELSE IF e = kEncodingDXT1 THEN Shr32(Mul16(w, h), 2)
  ELSE Mul16(w, h)

MipMapSize(e, w, h) ==
  IF e = kEncodingBGRA THEN Shl32(Mul16(w, h), 2)
  ELSE IF e = kEncodingDXT1 THEN Shr32(Mul16(w, h), 1)
  ELSE Mul16(w, h)

\* ------------------------------------------------------------------------
\* readHeader: the mip map loop
\* ------------------------------------------------------------------------
\* LoopCond running one iteration too many.
LoopCond_Inclusive(k, n) == k <= n

LoopCond(k, n) == k < n

\* MipDim without the clamp to 1.
MipDim_NoClamp(x) == x

MipDim(x) == IF x > 1 THEN x ELSE 1

\* InvalidDims without the exemption of square mip maps.
InvalidDims_AnySmall(w, h) == (w < 4) \/ (h < 4)

InvalidDims(w, h) == ((w < 4) \/ (h < 4)) /\ (w # h)

LevelSize(mms, mds) == Max32(mms, mds)

WouldntFit(ds, sz) == Lt32(ds, sz)

BothGone(w, h) == (w < 1) /\ (h < 1)

\* ------------------------------------------------------------------------
\* load: seek target, readTXIData, getTXI
\* ------------------------------------------------------------------------
\* SeekTarget one byte short of the end of the pixel data.
SeekTarget_OffByOne(ds) == Add32(ds, U32(kHeaderSize - 1))

SeekTarget(ds) == Add32(ds, U32(kHeaderSize))

TxiSize(sz, p) == Sub32(U32(sz), U32(p))

getTXI == IF (~_txiData) \/ (_txiDataSize = Zero32) THEN "null" ELSE "stream"

\* ------------------------------------------------------------------------
\* Initial state: TXB::TXB
\* ------------------------------------------------------------------------
Init ==
  /\ pc = "idle"
  /\ loads = 0
  /\ result = "none"
  /\ failedIn = "none"
  /\ everFailed = FALSE
  /\ _txb = TRUE
  /\ streamDeleted = FALSE
  /\ size \in Sizes
  /\ pos = 0
  /\ _dataSize = Zero32
  /\ _txiData = FALSE
  /\ _txiDataSize = Zero32
  /\ _mipMaps = <<>>
  /\ hdr = NoHeader
  /\ dataSize = Zero32
  /\ width = 0
  /\ height = 0
  /\ minDataSize = Zero32
  /\ mipMapSize = Zero32
  /\ i = 0
  /\ it = 0
  /\ base = 0
  /\ orphans = 0
  /\ txiFresh = FALSE

ResetLocals ==
  /\ dataSize' = Zero32
  /\ width' = 0
  /\ height' = 0
  /\ minDataSize' = Zero32
  /\ mipMapSize' = Zero32
  /\ i' = 0

\* An exception leaves load() through the catch block, which rethrows.
Throw(site) ==
  /\ pc' = "idle"
  /\ result' = "failed"
  /\ failedIn' = site
  /\ everFailed' = TRUE
  /\ hdr' = NoHeader
  /\ it' = 0
  /\ base' = 0

\* ------------------------------------------------------------------------
\* load()
\* ------------------------------------------------------------------------
\* load() on a decoder that holds no stream returns at once.
LoadNoStream ==
  /\ pc = "idle"
  /\ loads < MaxLoads
  /\ ~_txb
  /\ loads' = loads + 1
  /\ result' = "noop"
  /\ UNCHANGED <<pc, failedIn, everFailed, _txb, streamDeleted, stream, fields, hdr,
                 locals, it, base, orphans, txiFresh>>

\* load() on a decoder that holds its stream enters the try block.
LoadEnter ==
  /\ pc = "idle"
  /\ loads < MaxLoads
  /\ _txb
  /\ loads' = loads + 1
  /\ pc' = "readHeader"
  /\ result' = "none"
  /\ failedIn' = "none"
  /\ txiFresh' = FALSE
  /\ UNCHANGED <<everFailed, _txb, streamDeleted, stream, fields, hdr, locals, it, base,
                 orphans>>

\* readHeader up to the loop, for a known encoding.
ReadHeader ==
  /\ pc = "readHeader"
  /\ \E h \in Headers(loads) :
       /\ KnownEncoding(h.encoding)
       /\ hdr' = h
       /\ _dataSize' = h.dataSize
       /\ dataSize' = h.dataSize
       /\ width' = h.width
       /\ height' = h.height
       /\ minDataSize' = MinDataSize(h.encoding)
       /\ mipMapSize' = MipMapSize(h.encoding, h.width, h.height)
  /\ pos' = HeaderEnd(pos)
  /\ i' = 0
  /\ base' = Len(_mipMaps)
  /\ pc' = "loop"
  /\ UNCHANGED <<loads, outcome, _txb, streamDeleted, size, _txiData, _txiDataSize,
                 _mipMaps, it, orphans, txiFresh>>

\* readHeader for encoding 0x09 or an unknown encoding: throws.
ReadHeaderThrow ==
  /\ pc = "readHeader"
  /\ \E h \in Headers(loads) :
       /\ ~KnownEncoding(h.encoding)
       /\ _dataSize' = h.dataSize
       /\ Throw(IF h.encoding = kEncodingUnsupported
                THEN "readHeader:unsupported" ELSE "readHeader:unknown")
  /\ pos' = HeaderEnd(pos)
  /\ ResetLocals
  /\ UNCHANGED <<loads, _txb, streamDeleted, size, _txiData, _txiDataSize, _mipMaps,
                 orphans, txiFresh>>

LeaveLoop ==
  /\ pc' = "readData"
  /\ it' = 1
  /\ ResetLocals

\* The loop condition fails: the loop ends.
LoopDone ==
  /\ pc = "loop"
  /\ ~LoopCond(i, hdr.mipMapCount)
  /\ LeaveLoop
  /\ UNCHANGED <<loads, outcome, _txb, streamDeleted, stream, fields, hdr, base, orphans, txiFresh>>

\* An iteration that breaks on invalid mip map dimensions.
LoopInvalidDims ==
  /\ pc = "loop"
  /\ LoopCond(i, hdr.mipMapCount)
  /\ InvalidDims(width, height)
  /\ orphans' = orphans + 1
  /\ LeaveLoop
  /\ UNCHANGED <<loads, outcome, _txb, streamDeleted, stream, fields, hdr, base, txiFresh>>

\* An iteration that breaks because the mip map would not fit.
LoopWouldntFit ==
  /\ pc = "loop"
  /\ LoopCond(i, hdr.mipMapCount)
  /\ ~InvalidDims(width, height)
  /\ WouldntFit(dataSize, LevelSize(mipMapSize, minDataSize))
  /\ LeaveLoop
  /\ UNCHANGED <<loads, outcome, _txb, streamDeleted, stream, fields, hdr, base, orphans, txiFresh>>

\* An iteration that appends a mip map.
LoopAppend ==
  /\ pc = "loop"
  /\ LoopCond(i, hdr.mipMapCount)
  /\ ~InvalidDims(width, height)
  /\ LET sz == LevelSize(mipMapSize, minDataSize)
         w2 == width \div 2
         h2 == height \div 2
     IN  /\ ~WouldntFit(dataSize, sz)
         /\ _mipMaps' = Append(_mipMaps, [width |-> MipDim(width), height |-> MipDim(height),
                                         size |-> sz, data |-> FALSE])
         /\ IF BothGone(w2, h2)
            THEN LeaveLoop
            ELSE /\ dataSize' = Sub32(dataSize, sz)
                 /\ width' = w2
                 /\ height' = h2
                 /\ mipMapSize' = Shr32(mipMapSize, 2)
                 /\ i' = i + 1
                 /\ UNCHANGED <<pc, it, minDataSize>>
  /\ UNCHANGED <<loads, outcome, _txb, streamDeleted, stream, _dataSize, _txiData,
                 _txiDataSize, hdr, base, orphans, txiFresh>>

\* readData: one iteration, or the end of the loop.
ReadDataStep ==
  /\ pc = "readData"
  /\ it <= Len(_mipMaps)
  /\ LET n == _mipMaps[it].size
         got == Got(pos, n)
     IN  /\ _mipMaps' = [_mipMaps EXCEPT ![it].data = TRUE]
         /\ pos' = pos + got
         /\ IF U32(got) # n
            THEN /\ Throw("readData")
                 /\ UNCHANGED loads
            ELSE /\ it' = it + 1
                 /\ UNCHANGED <<pc, outcome, hdr, base, loads>>
  /\ UNCHANGED <<_txb, streamDeleted, size, _dataSize, _txiData, _txiDataSize, locals,
                 orphans, txiFresh>>

ReadDataDone ==
  /\ pc = "readData"
  /\ it > Len(_mipMaps)
  /\ pc' = "seek"
  /\ it' = 0
  /\ UNCHANGED <<loads, outcome, _txb, streamDeleted, stream, fields, hdr, locals, base,
                 orphans, txiFresh>>

\* _txb->seek(_dataSize + 128)
Seek ==
  /\ pc = "seek"
  /\ pos' = ToNat(SeekTarget(_dataSize))
  /\ pc' = "readTXIData"
  /\ UNCHANGED <<loads, outcome, _txb, streamDeleted, size, fields, hdr, locals, it, base,
                 orphans, txiFresh>>

\* readTXIData with nothing left in the stream.
ReadTXINone ==
  /\ pc = "readTXIData"
  /\ TxiSize(size, pos) = Zero32
  /\ _txiDataSize' = Zero32
  /\ pc' = "errCheck"
  /\ UNCHANGED <<loads, outcome, _txb, streamDeleted, stream, _dataSize, _txiData,
                 _mipMaps, hdr, locals, it, base, orphans, txiFresh>>

\* readTXIData with a rest to read.
ReadTXISome ==
  /\ pc = "readTXIData"
  /\ LET n == TxiSize(size, pos)
         got == Got(pos, n)
     IN  /\ n # Zero32
         /\ _txiDataSize' = n
         /\ _txiData' = TRUE
         /\ txiFresh' = TRUE
         /\ pos' = pos + got
         /\ IF U32(got) # n
            THEN Throw("readTXIData")
            ELSE /\ pc' = "errCheck"
                 /\ UNCHANGED <<outcome, hdr, it, base>>
  /\ UNCHANGED <<loads, _txb, streamDeleted, size, _dataSize, _mipMaps, locals, orphans>>

\* A skip or seek past the end of the stream trips the assertion of a
\* memory-backed stream; a file-backed stream just moves there (Sk, Seek).
StreamAbort ==
  /\ \/ pc = "readHeader" /\ HeaderEnd(pos) > size
     \/ pc = "seek" /\ ToNat(SeekTarget(_dataSize)) > size
  /\ pc' = "aborted"
  /\ UNCHANGED <<loads, outcome, _txb, streamDeleted, stream, fields, hdr, locals, it, base,
                 orphans, txiFresh>>

\* The stream reports an error: load() throws.
ErrThrow ==
  /\ pc = "errCheck"
  /\ Throw("err")
  /\ UNCHANGED <<loads, _txb, streamDeleted, stream, fields, locals, orphans, txiFresh>>

\* No stream error: load() deletes the stream and returns.
LoadReturn ==
  /\ pc = "errCheck"
  /\ streamDeleted' = TRUE
  /\ _txb' = FALSE
  /\ pc' = "idle"
  /\ result' = "ok"
  /\ UNCHANGED <<loads, failedIn, everFailed, stream, fields, hdr, locals, it, base,
                 orphans, txiFresh>>

Next ==
  \/ LoadNoStream
  \/ LoadEnter
  \/ ReadHeader
  \/ ReadHeaderThrow
  \/ LoopDone
  \/ LoopInvalidDims
  \/ LoopWouldntFit
  \/ LoopAppend
  \/ ReadDataStep
  \/ ReadDataDone
  \/ Seek
  \/ ReadTXINone
  \/ ReadTXISome
  \/ StreamAbort
  \/ ErrThrow
  \/ LoadReturn

Spec == Init /\ [][Next]_vars

\* Sequential execution: a loop that has been entered keeps running.
LoopStep == LoopDone \/ LoopInvalidDims \/ LoopWouldntFit \/ LoopAppend

FairSpec == Spec /\ WF_vars(LoopStep)

\* ------------------------------------------------------------------------
\* Notions the properties are stated in
\* ------------------------------------------------------------------------
\* The mip maps appended by the readHeader call of the running (or last) load().
Appended == SubSeq(_mipMaps, base + 1, Len(_mipMaps))

\* readHeader of the running (or last) load() has left its loop.
ChainBuilt == hdr.encoding # 0 /\ pc # "loop"

\* Sums that may exceed 32 bits: [hi, lo] with an unbounded hi.
AddWide(a, b) ==
  LET l == a.lo + b.lo
  IN  [hi |-> a.hi + b.hi + (l \div Half), lo |-> l % Half]

LeWide(a, b) == \/ a.hi < b.hi
                \/ a.hi = b.hi /\ a.lo <= b.lo

RECURSIVE SumSizes(_)
SumSizes(ms) ==
  IF ms = <<>> THEN Zero32 ELSE AddWide(ms[1].size, SumSizes(Tail(ms)))

Widths(ms) == [k \in 1..Len(ms) |-> ms[k].width]
Heights(ms) == [k \in 1..Len(ms) |-> ms[k].height]
SizesOf(ms) == [k \in 1..Len(ms) |-> ms[k].size]

\* The minimum level size of an encoding, as the specification tabulates it.
SpecMin(e) == CASE e = 4 -> 4 [] e = 10 -> 8 [] e = 12 -> 16

\* a * b modulo 2^32 by binary long multiplication.
RECURSIVE Prod32(_, _)
Prod32(a, b) ==
  IF b = 0 THEN Zero32
  ELSE LET d == Prod32(a, b \div 2)
       IN  Add32(Add32(d, d), IF b % 2 = 1 THEN U32(a) ELSE Zero32)

\* ------------------------------------------------------------------------
\* C1
\* ------------------------------------------------------------------------
ScenarioHeader == Header(U32(65536), 256, 256, 10, 9)

\* C1 as stated: the scenario header yields 7 levels, widths 256..4, sizes
\* 32768..8, 43688 bytes in all.
C1_AsStated ==
  (ChainBuilt /\ hdr = ScenarioHeader) =>
     /\ Len(Appended) = 7
     /\ Widths(Appended) = <<256, 128, 64, 32, 16, 8, 4>>
     /\ SizesOf(Appended) = <<U32(32768), U32(8192), U32(2048), U32(512), U32(128),
                              U32(32), U32(8)>>
     /\ SumSizes(Appended) = U32(43688)

\* C1 (amended): for budget 65536, 256x256, encoding 0x0A and 9 mip maps the
\* chain built by readHeader has 9 levels, widths and heights 256 down to 1,
\* sizes 32768, 8192, 2048, 512, 128, 32, 8, 8, 8, 43704 bytes in all.
C1_ScenarioChain ==
  (ChainBuilt /\ hdr = ScenarioHeader) =>
     /\ Len(Appended) = 9
     /\ Widths(Appended) = <<256, 128, 64, 32, 16, 8, 4, 2, 1>>
     /\ Heights(Appended) = <<256, 128, 64, 32, 16, 8, 4, 2, 1>>
     /\ SizesOf(Appended) = <<U32(32768), U32(8192), U32(2048), U32(512), U32(128),
                              U32(32), U32(8), U32(8), U32(8)>>
     /\ SumSizes(Appended) = U32(43704)

C1_Witness == ChainBuilt /\ hdr = ScenarioHeader /\ Len(Appended) > 0

\* ------------------------------------------------------------------------
\* C2
\* ------------------------------------------------------------------------
\* C2 as stated: whenever load() has returned, normally or by an exception,
\* the stream has been deleted and the decoder's pointer to it cleared.
C2_StreamReleased ==
  (pc = "idle" /\ result \in {"ok", "failed"}) => (streamDeleted /\ ~_txb)

\* ------------------------------------------------------------------------
\* C3
\* ------------------------------------------------------------------------
\* C3 as stated: when load() has failed on a short read in readData, no mip
\* map of the decoder has an allocated pixel buffer.
C3_BuffersReleased ==
  (pc = "idle" /\ result = "failed" /\ failedIn = "readData") =>
     \A k \in 1..Len(_mipMaps) : ~_mipMaps[k].data

\* ------------------------------------------------------------------------
\* C4
\* ------------------------------------------------------------------------
C4_Bounded ==
  /\ pc = "loop" => (i <= hdr.mipMapCount /\ Len(Appended) = i)
  /\ ChainBuilt => Len(Appended) <= hdr.mipMapCount
  /\ (/\ ChainBuilt
      /\ hdr.width = 1 /\ hdr.height = 1 /\ hdr.mipMapCount >= 1
      /\ LeWide(U32(SpecMin(hdr.encoding)), hdr.dataSize)) => Len(Appended) = 1

\* C4: the loop of readHeader terminates, the chain it builds has at most
\* mipMapCount levels, and for a 1x1 image with mipMapCount >= 1 and a budget
\* of at least one level it has exactly one level.
C4_Terminates == []C4_Bounded /\ ((pc = "loop") ~> (pc # "loop"))

C4_Witness ==
  /\ ChainBuilt /\ hdr.width = 1 /\ hdr.height = 1 /\ hdr.mipMapCount = 255
  /\ Len(Appended) = 1

\* ------------------------------------------------------------------------
\* C5
\* ------------------------------------------------------------------------
JustDerived == pc = "loop" /\ i = 0

\* v is n / 2 rounded down.
IsHalf(v, n) == v.hi < 2^15 /\ (Add32(v, v) = n \/ Add32(Add32(v, v), U32(1)) = n)

\* C5: readHeader derives (4, w*h*4), (8, w*h/2), (16, w*h) for encodings
\* 0x04, 0x0A, 0x0C, the base size taken modulo 2^32.
C5_Derivation ==
  JustDerived =>
    LET wh == Prod32(hdr.width, hdr.height)
    IN  /\ minDataSize = U32(SpecMin(hdr.encoding))
        /\ hdr.encoding = 4 => mipMapSize = Add32(Add32(wh, wh), Add32(wh, wh))
        /\ hdr.encoding = 10 => IsHalf(mipMapSize, wh)
        /\ hdr.encoding = 12 => mipMapSize = wh
        /\ (hdr.width <= 256 /\ hdr.height <= 256) =>
             ToNat(mipMapSize) = CASE hdr.encoding = 4 -> hdr.width * hdr.height * 4
                                   [] hdr.encoding = 10 -> (hdr.width * hdr.height) \div 2
                                   [] hdr.encoding = 12 -> hdr.width * hdr.height

C5_Witness ==
  JustDerived /\ hdr.encoding = 4 /\ hdr.width = 65535 /\ hdr.height = 65535

\* ------------------------------------------------------------------------
\* C6
\* ------------------------------------------------------------------------
\* C6: every level appended by readHeader has width >= 1, height >= 1 and a
\* size of at least the encoding's minimum, and no level is wider or taller
\* than the level before it.
C6_LevelsWellFormed ==
  hdr.encoding # 0 =>
    \A k \in 1..Len(Appended) :
       /\ Appended[k].width >= 1
       /\ Appended[k].height >= 1
       /\ LeWide(U32(SpecMin(hdr.encoding)), Appended[k].size)
       /\ k > 1 => /\ Appended[k].width <= Appended[k - 1].width
                   /\ Appended[k].height <= Appended[k - 1].height

C6_Witness ==
  /\ ChainBuilt /\ hdr.width = 0 /\ hdr.height = 0
  /\ Len(Appended) = 1

\* ------------------------------------------------------------------------
\* C7
\* ------------------------------------------------------------------------
\* The budget is the sum of the sizes of a chain of the full mipMapCount.
BudgetIsChainTotal ==
  /\ Len(Appended) = hdr.mipMapCount
  /\ SumSizes(Appended) = hdr.dataSize

Succeeded == pc = "idle" /\ result = "ok"

\* C7 as stated: a successful load() of a header whose budget is the sum of
\* the level sizes leaves no TXI buffer and getTXI() null.
C7_AsStated ==
  (Succeeded /\ BudgetIsChainTotal) => (~_txiData /\ getTXI = "null")

StreamEndsAtBudget == hdr.dataSize.hi < 2^15 /\ size = ToNat(hdr.dataSize) + 128

\* C7 (amended): when moreover the stream ends at offset 128 + budget, a
\* successful load() allocates no TXI buffer, leaves _txiDataSize 0 and
\* getTXI() null.
C7_NoTXI ==
  (Succeeded /\ BudgetIsChainTotal /\ StreamEndsAtBudget) =>
     (~txiFresh /\ _txiDataSize = Zero32 /\ getTXI = "null")

C7_Witness ==
  Succeeded /\ BudgetIsChainTotal /\ StreamEndsAtBudget /\ Len(Appended) > 0

\* ------------------------------------------------------------------------
\* C8
\* ------------------------------------------------------------------------
\* C8 as stated: once a load() has failed, the decoder stays where it is: no
\* step reads from the stream or changes the mip maps or the TXI data.
C8_FailedIsTerminal ==
  [][everFailed => /\ pos' = pos
                   /\ _mipMaps' = _mipMaps
                   /\ _txiData' = _txiData
                   /\ _txiDataSize' = _txiDataSize]_vars

\* ------------------------------------------------------------------------
\* C9
\* ------------------------------------------------------------------------
\* C9 as stated: in the loop the remaining budget is the declared budget less
\* the sizes appended, the chain's total is at most the budget, and the seek
\* after readData does not move the stream backwards.
C9_ForwardOnly ==
  /\ pc = "loop" => AddWide(SumSizes(Appended), dataSize) = hdr.dataSize
  /\ ChainBuilt => LeWide(SumSizes(Appended), hdr.dataSize)
  /\ pc = "seek" => pos <= ToNat(SeekTarget(_dataSize))

\* ------------------------------------------------------------------------
\* C10
\* ------------------------------------------------------------------------
\* C10 as stated: when the loop of readHeader has been left, every MipMap it
\* allocated is in _mipMaps or has been deleted.
C10_NoOrphans == pc # "loop" => orphans = 0

====
